---- MODULE Spec2Model ----
(***************************************************************************)
(* Model of the TikTok clipper: the web pipeline of src/app.py (task       *)
(* registry, background worker, status polling), the segment planning      *)
(* loop shared by src/app.py and src/clipper.py, and the 9:16 crop of      *)
(* resize_to_tiktok_format.                                                *)
(*                                                                         *)
(* Spec      the pipeline with callers of get_status                       *)
(* SpecFair  the pipeline's worker thread alone, scheduled fairly          *)
(* SpecPlan  the planning loop on chosen durations                         *)
(* SpecGeom  the resize on chosen frame sizes                              *)
(*                                                                         *)
(* One submission is followed from POST /api/process to the end of its     *)
(* worker thread; any number of GET /api/status calls interleave with it.  *)
(* Durations are whole seconds.  The outcome of the retrieval, of opening  *)
(* the video and of each encode is chosen by the environment.              *)
(***************************************************************************)
EXTENDS Integers, Sequences, FiniteSets, TLC

(* ------------------------------ bounds -------------------------------- *)
NumIds == 2            \* task identifiers uuid4 may return
MaxTotal == 100        \* longest video.duration tried by the pipeline
ClipLo == 28           \* smallest clip_duration submitted to the pipeline
ClipHi == 33           \* largest clip_duration submitted to the pipeline
PlanMaxTotal == 140    \* longest total_duration given to the planning loop
PlanMaxClip == 70      \* largest clip_duration given to the planning loop

GeomMaxSide == 40      \* every clip.size up to this width and height is tried
GeomMaxCalls == 2      \* calls of the resize followed for one clip.size

(* ------------------------- program constants -------------------------- *)
MinClipDuration == 30  \* "if end_time - start_time < 30"

TargetWidth == 1080    \* target_width
TargetHeight == 1920   \* target_height

TaskIds == 1..NumIds

VARIABLES
    tasks,          \* the global dict  tasks : task_id -> snapshot
    task_id,        \* id of the submitted task, 0 before the submission
    clip_duration,  \* clip_duration of the request
    pc,             \* position of the worker thread
    clipper,        \* TikTokClipper fields: status, progress, message, clips
    pending,        \* dict values update_status has built and not yet stored
    source_file,    \* the retrieved file: "absent", "present" or "removed"
    total_duration, \* video.duration once the video is open
    num_clips,      \* num_clips of cut_video_into_clips
    i,              \* loop variable of cut_video_into_clips
    ret,            \* value returned by cut_video_into_clips
    failure,        \* which call raised: "none", "retrieval", "decode", "encode"
    attempted,      \* 1-based segment numbers whose encode was started
    calls,          \* snapshots update_status was asked to publish
    history,        \* snapshots stored in tasks[task_id], in order
    observed,       \* last response of get_status
    returned,       \* task_id sent back by POST /api/process, 0 before that
    plan_total,     \* planning loop on its own: total_duration
    plan_clip,      \* planning loop on its own: clip_duration
    plan_pc,        \* planning loop on its own: "idle", "app", "cli" or "done"
    plan_n,         \* planning loop on its own: num_clips
    plan_i,         \* planning loop on its own: loop variable
    plan_by,        \* planning loop on its own: whose result plan_out is,
                    \* "none" until the loop has returned, then "app" or "cli"
    plan_out,       \* planning loop on its own: the clips produced
    geo_w,          \* resize on its own: width of clip.size
    geo_h,          \* resize on its own: height of clip.size
    geo_out         \* resize on its own: the result of each call so far

vars == <<tasks, task_id, clip_duration, pc, clipper, pending, source_file,
          total_duration, num_clips, i, ret, failure, attempted, calls,
          history, observed, returned, plan_total, plan_clip, plan_pc,
          plan_n, plan_i, plan_by, plan_out, geo_w, geo_h, geo_out>>

pipeVars == <<tasks, task_id, clip_duration, pc, clipper, pending, source_file,
              total_duration, num_clips, i, ret, failure, attempted, calls,
              history, observed, returned>>

planVars == <<plan_total, plan_clip, plan_pc, plan_n, plan_i, plan_by, plan_out>>

geoVars == <<geo_w, geo_h, geo_out>>

(* ------------------------------ helpers ------------------------------- *)
Min(a, b) == IF a <= b THEN a ELSE b

\* slip: the quotient rounded down instead of up
NumClipsFloor(total, clip) == total \div clip

\* math.ceil(total_duration / clip_duration)
NumClips(total, clip) == (total + clip - 1) \div clip

\* start_time = i * clip_duration
StartTime(k, clip) == k * clip

\* slip: the end of the last clip is not cut at the end of the video
EndTimeNoMin(k, clip, total) == (k + 1) * clip

\* end_time = min((i + 1) * clip_duration, total_duration)
EndTime(k, clip, total) == Min((k + 1) * clip, total)

\* slip: "<= 30" instead of "< 30"
TooShortLe(k, clip, total) ==
    Min((k + 1) * clip, total) - k * clip <= 30

\* if end_time - start_time < 30: continue
TooShort(k, clip, total) ==
    EndTime(k, clip, total) - StartTime(k, clip) < MinClipDuration

\* int((i / num_clips) * 45): the quotient is a double, and for 13/45 and
\* 26/45 the product falls just below the integer and is truncated down
Trunc45(k, n) ==
    IF k * 45 = 13 * n \/ k * 45 = 26 * n
    THEN (k * 45) \div n - 1
    ELSE (k * 45) \div n

\* slip: the fraction of the clips left instead of the clips done
ProgressDown(k, n) == 50 + ((n - k) * 45) \div n

\* slip: i + 1 instead of i in the fraction
ProgressOneBased(k, n) == 50 + ((k + 1) * 45) \div n

\* progress = 50 + int((i / num_clips) * 45)
Progress(k, n) == 50 + Trunc45(k, n)

RECURSIVE Digits(_)
Digits(n) == IF n < 10 THEN <<n>> ELSE Append(Digits(n \div 10), n % 10)

RECURSIVE PadLeft(_, _)
PadLeft(ds, width) == IF Len(ds) >= width THEN ds ELSE PadLeft(<<0>> \o ds, width)

\* slip: the file is numbered with i instead of i + 1
OutputPathZeroBased(dir, k) == [dir |-> dir, name |-> PadLeft(Digits(k), 3)]

\* self.output_dir / f"clip_{i+1:03d}.mp4"
OutputPath(dir, k) == [dir |-> dir, name |-> PadLeft(Digits(k + 1), 3)]

\* [str(c.name) for c in self.clips]
ClipNames(cs) == [j \in 1..Len(cs) |-> cs[j].name]

Msg(text, a, b) == [text |-> text, a |-> a, b |-> b]

\* the dict literal of update_status
Snapshot(status, progress, message, cs) ==
    [status |-> status, progress |-> progress, message |-> message,
     clips |-> ClipNames(cs)]

\* the dict literal of process()
StartingEntry ==
    [status |-> "starting", progress |-> 0,
     message |-> Msg("Initialisation...", 0, 0), clips |-> <<>>]

\* jsonify({'error': 'Tache introuvable'}), 404
NotFound == [error |-> "Tache introuvable"]

\* slip: the entry is updated in place, key by key, instead of being replaced
RegistryWritesInPlace(old, new) ==
    <<[old EXCEPT !.status = new.status, !.progress = new.progress], new>>

\* tasks[self.task_id] = {...}: the values tasks[task_id] takes while one
\* update_status call stores its dict
RegistryWrites(old, new) == <<new>>

(* ------------------------------- state -------------------------------- *)
InitPipe ==
    /\ tasks = [id \in TaskIds |-> NotFound]
    /\ task_id = 0
    /\ clip_duration = 0
    /\ pc = "idle"
    /\ clipper = [status |-> "none", progress |-> 0,
                  message |-> Msg("", 0, 0), clips |-> <<>>]
    /\ pending = <<>>
    /\ source_file = "absent"
    /\ total_duration = 0
    /\ num_clips = 0
    /\ i = 0
    /\ ret = <<>>
    /\ failure = "none"
    /\ attempted = <<>>
    /\ calls = {}
    /\ history = <<>>
    /\ observed = [id |-> 0, resp |-> NotFound, known |-> FALSE]
    /\ returned = 0

\* no resize on its own is under way
InitGeoIdle ==
    /\ geo_w = 1
    /\ geo_h = 1
    /\ geo_out = <<>>

Init ==
    /\ InitPipe
    /\ InitGeoIdle
    /\ plan_total = 0
    /\ plan_clip = 1
    /\ plan_pc = "idle"
    /\ plan_n = 0
    /\ plan_i = 0
    /\ plan_by = "none"
    /\ plan_out = <<>>

\* TikTokClipper.update_status, lines 38-40 and the construction of the dict;
\* the store into tasks is the action Store
UpdateStatus(status, progress, message) ==
    LET snap == Snapshot(status, progress, message, clipper.clips) IN
    /\ clipper' = [clipper EXCEPT !.status = status, !.progress = progress,
                                  !.message = message]
    /\ pending' = RegistryWrites(tasks[task_id], snap)
    /\ calls' = calls \cup {snap}

\* tasks[self.task_id] = {...}
Store ==
    /\ pending # <<>>
    /\ tasks' = [tasks EXCEPT ![task_id] = Head(pending)]
    /\ pending' = Tail(pending)
    /\ history' = Append(history, Head(pending))
    /\ UNCHANGED <<task_id, clip_duration, pc, clipper, source_file,
                   total_duration, num_clips, i, ret, failure, attempted,
                   calls, observed>>
    /\ UNCHANGED <<returned, planVars, geoVars>>

\* slip: the thread is started without the entry being created first
SubmitNoEntry ==
    /\ pc = "idle"
    /\ \E id \in TaskIds, d \in ClipLo..ClipHi :
          /\ tasks[id] = NotFound
          /\ task_id' = id
          /\ clip_duration' = d
    /\ pc' = "created"
    /\ UNCHANGED <<tasks, history, clipper, pending, source_file, total_duration,
                   num_clips, i, ret, failure, attempted, calls, observed>>
    /\ UNCHANGED <<returned, planVars, geoVars>>

\* POST /api/process: the entry is created, then the thread is started
Submit ==
    /\ pc = "idle"
    /\ \E id \in TaskIds, d \in ClipLo..ClipHi :
          /\ tasks[id] = NotFound
          /\ task_id' = id
          /\ clip_duration' = d
          /\ tasks' = [tasks EXCEPT ![id] = StartingEntry]
          /\ history' = <<StartingEntry>>
    /\ pc' = "created"
    /\ UNCHANGED <<clipper, pending, source_file, total_duration, num_clips,
                   i, ret, failure, attempted, calls, observed>>
    /\ UNCHANGED <<returned, planVars, geoVars>>

\* process_video_task: TikTokClipper(task_id), then process_video begins and
\* download_video publishes "downloading"
StartDownload ==
    /\ pc = "created"
    /\ pending = <<>>
    /\ LET snap == Snapshot("downloading", 10, Msg("Telechargement de la video...", 0, 0), <<>>) IN
          /\ clipper' = [status |-> "downloading", progress |-> 10,
                         message |-> snap.message, clips |-> <<>>]
          /\ pending' = RegistryWrites(tasks[task_id], snap)
          /\ calls' = calls \cup {snap}
    /\ pc' = "fetch"
    /\ UNCHANGED <<tasks, task_id, clip_duration, source_file, total_duration,
                   num_clips, i, ret, failure, attempted, history, observed>>
    /\ UNCHANGED <<returned, planVars, geoVars>>

\* ydl.extract_info(...) returns: the file is on disk, "downloaded" is published
FetchOk ==
    /\ pc = "fetch"
    /\ pending = <<>>
    /\ source_file' = "present"
    /\ UpdateStatus("downloaded", 30, Msg("Telecharge: <title>", 0, 0))
    /\ pc' = "cut"
    /\ UNCHANGED <<tasks, task_id, clip_duration, total_duration, num_clips,
                   i, ret, failure, attempted, history, observed>>
    /\ UNCHANGED <<returned, planVars, geoVars>>

\* slip: process_video goes on after a failed download
FetchFailNoReturn ==
    /\ pc = "fetch"
    /\ pending = <<>>
    /\ source_file' \in {"absent", "present"}
    /\ failure' = "retrieval"
    /\ clipper' = [clipper EXCEPT !.status = "error", !.progress = 0,
                                  !.message = Msg("Erreur telechargement: <e>", 0, 0)]
    /\ pending' = <<Snapshot("error", 0, Msg("Erreur telechargement: <e>", 0, 0),
                             clipper.clips)>>
    /\ calls' = calls \cup {Snapshot("error", 0, Msg("Erreur telechargement: <e>", 0, 0),
                                     clipper.clips)}
    /\ pc' = "cut"
    /\ UNCHANGED <<tasks, task_id, clip_duration, total_duration, num_clips,
                   i, ret, attempted, history, observed>>
    /\ UNCHANGED <<returned, planVars, geoVars>>

\* an exception inside the try of download_video: the file may or may not have
\* been written; "error" is published and process_video returns
FetchFail ==
    /\ pc = "fetch"
    /\ pending = <<>>
    /\ source_file' \in {"absent", "present"}
    /\ failure' = "retrieval"
    /\ UpdateStatus("error", 0, Msg("Erreur telechargement: <e>", 0, 0))
    /\ pc' = "done"
    /\ UNCHANGED <<tasks, task_id, clip_duration, total_duration, num_clips,
                   i, ret, attempted, history, observed>>
    /\ UNCHANGED <<returned, planVars, geoVars>>

\* cut_video_into_clips, line 111
CutBegin ==
    /\ pc = "cut"
    /\ pending = <<>>
    /\ UpdateStatus("processing", 40, Msg("Analyse de la video...", 0, 0))
    /\ pc' = "open"
    /\ UNCHANGED <<tasks, task_id, clip_duration, source_file, total_duration,
                   num_clips, i, ret, failure, attempted, history, observed>>
    /\ UNCHANGED <<returned, planVars, geoVars>>

\* lines 114-118: the video opens and has some duration
OpenOk ==
    /\ pc = "open"
    /\ pending = <<>>
    /\ \E total \in 0..MaxTotal :
          /\ total_duration' = total
          /\ num_clips' = NumClips(total, clip_duration)
          /\ UpdateStatus("processing", 50,
                          Msg("Creation de N clips (format 9:16)...",
                              NumClips(total, clip_duration), 0))
    /\ i' = 0
    /\ pc' = "loop"
    /\ UNCHANGED <<tasks, task_id, clip_duration, source_file, ret, failure,
                   attempted, history, observed>>
    /\ UNCHANGED <<returned, planVars, geoVars>>

\* the exception handler of cut_video_into_clips, lines 151-153
CutError(kind) ==
    /\ failure' = kind
    /\ UpdateStatus("error", 0, Msg("Erreur decoupage: <e>", 0, 0))
    /\ ret' = <<>>
    /\ pc' = "cleanup"

\* VideoFileClip(video_path) raises
OpenFail ==
    /\ pc = "open"
    /\ pending = <<>>
    /\ CutError("decode")
    /\ UNCHANGED <<tasks, task_id, clip_duration, source_file, total_duration,
                   num_clips, i, attempted, history, observed>>
    /\ UNCHANGED <<returned, planVars, geoVars>>

\* lines 120-125: an entry shorter than 30 s is skipped
SkipShort ==
    /\ pc = "loop"
    /\ pending = <<>>
    /\ i < num_clips
    /\ TooShort(i, clip_duration, total_duration)
    /\ i' = i + 1
    /\ UNCHANGED <<tasks, task_id, clip_duration, pc, clipper, pending,
                   source_file, total_duration, num_clips, ret, failure,
                   attempted, calls, history, observed>>
    /\ UNCHANGED <<returned, planVars, geoVars>>

\* lines 120-128: the progress of entry i is published before its encode
BeginClip ==
    /\ pc = "loop"
    /\ pending = <<>>
    /\ i < num_clips
    /\ ~TooShort(i, clip_duration, total_duration)
    /\ UpdateStatus("processing", Progress(i, num_clips),
                    Msg("Creation clip i/N (format TikTok)...", i + 1, num_clips))
    /\ pc' = "encode"
    /\ UNCHANGED <<tasks, task_id, clip_duration, source_file, total_duration,
                   num_clips, i, ret, failure, attempted, history, observed>>
    /\ UNCHANGED <<returned, planVars, geoVars>>

\* lines 130-146: subclip, resize and write_videofile return; the path is
\* appended to self.clips
EncodeOk ==
    /\ pc = "encode"
    /\ pending = <<>>
    /\ attempted' = Append(attempted, i + 1)
    /\ clipper' = [clipper EXCEPT !.clips = Append(@, OutputPath(task_id, i))]
    /\ i' = i + 1
    /\ pc' = "loop"
    /\ UNCHANGED <<tasks, task_id, clip_duration, pending, source_file,
                   total_duration, num_clips, ret, failure, calls, history,
                   observed>>
    /\ UNCHANGED <<returned, planVars, geoVars>>

\* slip: the path is appended to self.clips before write_videofile is called,
\* so a failed encode leaves it in the list the handler publishes
EncodeFailAppended ==
    /\ pc = "encode"
    /\ pending = <<>>
    /\ attempted' = Append(attempted, i + 1)
    /\ failure' = "encode"
    /\ LET cs == Append(clipper.clips, OutputPath(task_id, i))
           snap == Snapshot("error", 0, Msg("Erreur decoupage: <e>", 0, 0), cs)
       IN  /\ clipper' = [status |-> "error", progress |-> 0,
                          message |-> snap.message, clips |-> cs]
           /\ pending' = <<snap>>
           /\ calls' = calls \cup {snap}
    /\ ret' = <<>>
    /\ pc' = "cleanup"
    /\ UNCHANGED <<tasks, task_id, clip_duration, source_file, total_duration,
                   num_clips, i, history, observed>>
    /\ UNCHANGED <<returned, planVars, geoVars>>

\* lines 130-144 raise: the handler publishes "error" and returns []
EncodeFail ==
    /\ pc = "encode"
    /\ pending = <<>>
    /\ attempted' = Append(attempted, i + 1)
    /\ CutError("encode")
    /\ UNCHANGED <<tasks, task_id, clip_duration, source_file, total_duration,
                   num_clips, i, history, observed>>
    /\ UNCHANGED <<returned, planVars, geoVars>>

\* slip: the loop is left one index too late, which never comes
LoopExitOffByOne ==
    /\ pc = "loop"
    /\ pending = <<>>
    /\ i > num_clips
    /\ ret' = clipper.clips
    /\ pc' = "cleanup"
    /\ UNCHANGED <<tasks, task_id, clip_duration, clipper, pending,
                   source_file, total_duration, num_clips, i, failure,
                   attempted, calls, history, observed>>
    /\ UNCHANGED <<returned, planVars, geoVars>>

\* lines 148-149: the loop is over, video.close(), return self.clips
LoopExit ==
    /\ pc = "loop"
    /\ pending = <<>>
    /\ i >= num_clips
    /\ ret' = clipper.clips
    /\ pc' = "cleanup"
    /\ UNCHANGED <<tasks, task_id, clip_duration, clipper, pending,
                   source_file, total_duration, num_clips, i, failure,
                   attempted, calls, history, observed>>
    /\ UNCHANGED <<returned, planVars, geoVars>>

\* process_video, lines 166-170: the source file is removed and "completed"
\* is published with len(clips) of the returned list
Cleanup ==
    /\ pc = "cleanup"
    /\ pending = <<>>
    /\ source_file' = IF source_file = "present" THEN "removed" ELSE source_file
    /\ UpdateStatus("completed", 100, Msg("N clips crees!", Len(ret), 0))
    /\ pc' = "done"
    /\ UNCHANGED <<tasks, task_id, clip_duration, total_duration, num_clips,
                   i, ret, failure, attempted, history, observed>>
    /\ UNCHANGED <<returned, planVars, geoVars>>

\* process(), line 215: the task id goes back to the caller, while the thread
\* started at line 213 may already be running
ReturnTaskId ==
    /\ task_id # 0
    /\ returned = 0
    /\ returned' = task_id
    /\ UNCHANGED <<tasks, task_id, clip_duration, pc, clipper, pending,
                   source_file, total_duration, num_clips, i, ret, failure,
                   attempted, calls, history, observed>>
    /\ UNCHANGED <<planVars, geoVars>>

\* GET /api/status/<task_id>; "known" tells whether the caller asked with the
\* id process() had returned
GetStatus ==
    /\ \E id \in TaskIds :
          observed' = [id |-> id,
                       resp |-> IF tasks[id] = NotFound THEN NotFound ELSE tasks[id],
                       known |-> id = returned]
    /\ UNCHANGED <<tasks, task_id, clip_duration, pc, clipper, pending,
                   source_file, total_duration, num_clips, i, ret, failure,
                   attempted, calls, history>>
    /\ UNCHANGED <<returned, planVars, geoVars>>

Next ==
    \/ Submit
    \/ StartDownload
    \/ FetchOk
    \/ FetchFail
    \/ CutBegin
    \/ OpenOk
    \/ OpenFail
    \/ SkipShort
    \/ BeginClip
    \/ EncodeOk
    \/ EncodeFail
    \/ LoopExit
    \/ Cleanup
    \/ Store
    \/ ReturnTaskId
    \/ GetStatus

Spec == Init /\ [][Next]_vars

\* the steps of the worker thread started by process()
Worker ==
    \/ StartDownload
    \/ FetchOk
    \/ FetchFail
    \/ CutBegin
    \/ OpenOk
    \/ OpenFail
    \/ SkipShort
    \/ BeginClip
    \/ EncodeOk
    \/ EncodeFail
    \/ LoopExit
    \/ Cleanup
    \/ Store

\* a submission and its worker thread, without the callers of get_status
\* and without the return of process(), which change nothing the thread reads
NextWorker ==
    \/ Submit
    \/ Worker

\* the thread is scheduled as long as it has a step to take, and every
\* retrieval, open and encode call returns
SpecFair == Init /\ [][NextWorker]_vars /\ WF_vars(Worker)

(* ------------------- the planning loop on its own --------------------- *)
\* the loop of cut_video_into_clips with every encode succeeding: the entries
\* (index, start, end) of the clips it produces, one iteration per step
InitPlan ==
    /\ InitPipe
    /\ plan_total \in 0..PlanMaxTotal
    /\ plan_clip \in 1..PlanMaxClip
    /\ plan_pc = "idle"
    /\ plan_n = 0
    /\ plan_i = 0
    /\ plan_by = "none"
    /\ plan_out = <<>>
    /\ InitGeoIdle

\* app.py, lines 115-116
PlanAppBegin ==
    /\ plan_pc = "idle"
    /\ plan_n' = NumClips(plan_total, plan_clip)
    /\ plan_i' = 0
    /\ plan_pc' = "app"
    /\ UNCHANGED <<plan_total, plan_clip, plan_by, plan_out>>
    /\ UNCHANGED <<pipeVars, geoVars>>

\* app.py, lines 120-146: one iteration
PlanAppIter ==
    /\ plan_pc = "app"
    /\ plan_i < plan_n
    /\ plan_out' = IF TooShort(plan_i, plan_clip, plan_total)
                   THEN plan_out
                   ELSE Append(plan_out,
                               [index |-> plan_i,
                                start |-> StartTime(plan_i, plan_clip),
                                end |-> EndTime(plan_i, plan_clip, plan_total)])
    /\ plan_i' = plan_i + 1
    /\ UNCHANGED <<plan_total, plan_clip, plan_pc, plan_n, plan_by>>
    /\ UNCHANGED <<pipeVars, geoVars>>

\* app.py, lines 148-149
PlanAppReturn ==
    /\ plan_pc = "app"
    /\ plan_i >= plan_n
    /\ plan_by' = "app"
    /\ plan_pc' = "done"
    /\ UNCHANGED <<plan_total, plan_clip, plan_n, plan_i, plan_out>>
    /\ UNCHANGED <<pipeVars, geoVars>>

\* clipper.py, lines 46-47
PlanCliBegin ==
    /\ plan_pc = "idle"
    /\ plan_n' = (plan_total + plan_clip - 1) \div plan_clip
    /\ plan_i' = 0
    /\ plan_pc' = "cli"
    /\ UNCHANGED <<plan_total, plan_clip, plan_by, plan_out>>
    /\ UNCHANGED <<pipeVars, geoVars>>

\* clipper.py, lines 54-79: one iteration
PlanCliIter ==
    /\ plan_pc = "cli"
    /\ plan_i < plan_n
    /\ LET start_time == plan_i * plan_clip
           end_time == IF (plan_i + 1) * plan_clip <= plan_total
                       THEN (plan_i + 1) * plan_clip ELSE plan_total
       IN  plan_out' = IF end_time - start_time < 30
                       THEN plan_out
                       ELSE Append(plan_out, [index |-> plan_i,
                                              start |-> start_time,
                                              end |-> end_time])
    /\ plan_i' = plan_i + 1
    /\ UNCHANGED <<plan_total, plan_clip, plan_pc, plan_n, plan_by>>
    /\ UNCHANGED <<pipeVars, geoVars>>

\* clipper.py, lines 82-83
PlanCliReturn ==
    /\ plan_pc = "cli"
    /\ plan_i >= plan_n
    /\ plan_by' = "cli"
    /\ plan_pc' = "done"
    /\ UNCHANGED <<plan_total, plan_clip, plan_n, plan_i, plan_out>>
    /\ UNCHANGED <<pipeVars, geoVars>>

NextPlan ==
    \/ PlanAppBegin
    \/ PlanAppIter
    \/ PlanAppReturn
    \/ PlanCliBegin
    \/ PlanCliIter
    \/ PlanCliReturn

SpecPlan == InitPlan /\ [][NextPlan]_vars

(* ----------------------- the resize on its own ------------------------ *)
\* frame sizes of real sources, tried besides the small ones
StandardSizes ==
    {<<1920, 1080>>, <<1280, 720>>, <<1080, 1920>>, <<1000, 1000>>, <<640, 480>>}

\* slip: "<" instead of ">" in the comparison of the ratios
WiderFlipped(w, h) == w * TargetHeight < h * TargetWidth

\* current_ratio > target_ratio, with current_ratio = w / h and
\* target_ratio = target_width / target_height = 0.5625 (exact as a double)
Wider(w, h) == w * TargetHeight > h * TargetWidth

\* int(x) of a half-integer x = a / 2: truncation towards zero
TruncHalf(a) == IF a >= 0 THEN a \div 2 ELSE -((-a) \div 2)

\* slip: each half rounded down before the subtraction
OffsetIntDiv(extent, cropped) == extent \div 2 - cropped \div 2

\* x1 = int(x_center - new_width / 2) with x_center = w / 2, and the same for y1
Offset(extent, cropped) == TruncHalf(extent - cropped)

\* resize_to_tiktok_format: the crop rectangle, then the final size
ResizeToTiktokFormat(w, h) ==
    IF Wider(w, h)
    THEN LET new_width == (h * TargetWidth) \div TargetHeight
         IN  [axis |-> "horizontal",
              crop |-> [x |-> Offset(w, new_width), y |-> 0,
                        width |-> new_width, height |-> h],
              size |-> <<TargetWidth, TargetHeight>>]
    ELSE LET new_height == (w * TargetHeight) \div TargetWidth
         IN  [axis |-> "vertical",
              crop |-> [x |-> 0, y |-> Offset(h, new_height),
                        width |-> w, height |-> new_height],
              size |-> <<TargetWidth, TargetHeight>>]

InitGeom ==
    /\ InitPipe
    /\ plan_total = 0
    /\ plan_clip = 1
    /\ plan_pc = "idle"
    /\ plan_n = 0
    /\ plan_i = 0
    /\ plan_by = "none"
    /\ plan_out = <<>>
    /\ \E size \in ((1..GeomMaxSide) \X (1..GeomMaxSide)) \cup StandardSizes :
          /\ geo_w = size[1]
          /\ geo_h = size[2]
    /\ geo_out = <<>>

\* one call of resize_to_tiktok_format on a clip of size (geo_w, geo_h)
Resize ==
    /\ Len(geo_out) < GeomMaxCalls
    /\ geo_out' = Append(geo_out, ResizeToTiktokFormat(geo_w, geo_h))
    /\ UNCHANGED <<geo_w, geo_h>>
    /\ UNCHANGED <<pipeVars, planVars>>

NextGeom == Resize

SpecGeom == InitGeom /\ [][NextGeom]_vars

(* ============================ properties ============================== *)
Terminal(snap) == snap.status \in {"completed", "error"}

\* the worker thread is over and its last dict is stored
Stopped == pc = "done" /\ pending = <<>>

\* number of plan entries i*clip .. min((i+1)*clip, total) of at least 30 s
PlannedCount(total, clip) ==
    Cardinality({k \in 0..(total \div clip) :
                    /\ k * clip < total
                    /\ (IF (k + 1) * clip <= total THEN clip ELSE total - k * clip) >= 30})

(* C1: `completed` and `error` are terminal: once the registry entry of a   *)
(* task has status error or completed, no later update changes its status,  *)
(* progress, message or artifacts.                                          *)
C1_TerminalIsFinal ==
    \A j \in 1..Len(history) : \A k \in j..Len(history) :
        Terminal(history[j]) => history[k] = history[j]

(* C2: when the encode of planned segment k of n fails, the task ends with  *)
(* status error and progress 0, its artifacts are exactly the k-1 produced  *)
(* before the failure, and no encode is attempted for a segment after k.    *)
C2_EncodeFailureEndsInError ==
    (Stopped /\ failure = "encode") =>
        /\ tasks[task_id].status = "error"
        /\ tasks[task_id].progress = 0
        /\ Len(tasks[task_id].clips) = Len(attempted) - 1
        /\ \A j \in 1..Len(attempted) : attempted[j] <= i + 1

(* C3: when retrieval fails, the task ends with status error, progress 0    *)
(* and no artifacts, `processing` is never published for the task, and no   *)
(* encode call is ever made.                                                *)
C3_RetrievalFailure ==
    failure = "retrieval" =>
        /\ pc = "done"
        /\ attempted = <<>>
        /\ \A j \in 1..Len(history) : history[j].status # "processing"
        /\ \A snap \in calls : snap.status # "processing"
        /\ pending = <<>> =>
              /\ tasks[task_id].status = "error"
              /\ tasks[task_id].progress = 0
              /\ tasks[task_id].clips = <<>>

\* a reader has seen the error left by a failed retrieval
C3_Witness ==
    /\ failure = "retrieval"
    /\ Stopped
    /\ observed.id = task_id
    /\ observed.resp = tasks[task_id]
    /\ observed.resp.status = "error"

(* C4: the source file is deleted only on the success path: in every run    *)
(* where retrieval or an encode fails, the source file is still there when  *)
(* the task stops.                                                          *)
C4_SourceKeptOnFailure ==
    (Stopped /\ failure # "none") => source_file # "removed"

(* C5: in every registry snapshot with status completed, the number of      *)
(* artifacts equals the number of plan entries of at least 30 s, whatever   *)
(* the encodes did.                                                         *)
C5_CompletedArtifactCount ==
    \A j \in 1..Len(history) :
        (history[j].status = "completed" /\ failure # "decode") =>
            Len(history[j].clips) = PlannedCount(total_duration, clip_duration)

(* C6: a reader polling status never sees status completed with an empty    *)
(* artifacts list when the plan of the task has an entry of 30 s or more.   *)
C6_NoCompletedEmpty ==
    (/\ observed.resp # NotFound
     /\ observed.resp.status = "completed"
     /\ observed.resp.clips = <<>>
     /\ failure # "decode")
        => PlannedCount(total_duration, clip_duration) = 0

(* C7: the progress values of the successive registry updates of a task,    *)
(* from submission to the terminal state, never decrease.                  *)
C7_ProgressNeverDecreases ==
    \A j \in 1..(Len(history) - 1) :
        history[j + 1].progress >= history[j].progress

(* C7, amended: the progress values of the successive registry updates      *)
(* never decrease, except that an update to status error sets it to 0.     *)
C7_ProgressDecreasesOnlyOnError ==
    \A j \in 1..(Len(history) - 1) :
        \/ history[j + 1].progress >= history[j].progress
        \/ history[j + 1].status = "error" /\ history[j + 1].progress = 0

\* the second encode failed: progress rose to its value for clip 2, fell to
\* 0 with the error and ended at 100
C7_Witness ==
    /\ Stopped
    /\ failure = "encode"
    /\ Len(attempted) = 2
    /\ \E j \in 1..(Len(history) - 1) :
          history[j].progress > 50 /\ history[j + 1].progress = 0
    /\ tasks[task_id].progress = 100

(* C8: every snapshot status returns is, field for field, the entry written *)
(* at submission or the dict of one single update_status call; no response  *)
(* mixes the fields of two updates.                                         *)
C8_NoTornRead ==
    /\ observed.resp \in {NotFound, StartingEntry} \cup calls
    /\ \A id \in TaskIds : tasks[id] \in {NotFound, StartingEntry} \cup calls

\* a reader got a snapshot while the worker was inside update_status
C8_Witness ==
    /\ pending # <<>>
    /\ observed.id = task_id
    /\ observed.resp = tasks[task_id]
    /\ observed.resp.status = "processing"
    /\ Len(observed.resp.clips) >= 1

(* C9: the planner's sequence is empty iff total_duration < 30, for every   *)
(* total_duration >= 0 and every positive segment_duration.                 *)
C9_EmptyIffShortTotal ==
    plan_by # "none" => (plan_out = <<>> <=> plan_total < 30)

(* C9, amended: the planner's sequence is empty iff total_duration < 30 or  *)
(* segment_duration < 30.                                                   *)
C9_EmptyIffShortTotalOrClip ==
    plan_by # "none" => (plan_out = <<>> <=> (plan_total < 30 \/ plan_clip < 30))

\* a clip_duration under 30 s on a long video produced nothing
C9_Witness ==
    /\ plan_by = "app"
    /\ plan_clip < 30
    /\ plan_total >= 2 * 30
    /\ plan_out = <<>>

\* least n with n * clip >= total
CeilDiv(total, clip) ==
    CHOOSE n \in 0..total : n * clip >= total /\ (n = 0 \/ (n - 1) * clip < total)

\* kept segments are contiguous from 0, leave at most one trailing gap under
\* 30 s, and only the last plan entry can be missing
PlanCovers(out, total, clip) ==
    /\ \A j \in 1..Len(out) : out[j].start < out[j].end
    /\ out # <<>> => out[1].start = 0
    /\ \A j \in 1..(Len(out) - 1) : out[j].end = out[j + 1].start
    /\ LET covered == IF out = <<>> THEN 0 ELSE out[Len(out)].end
       IN  covered <= total /\ total - covered < 30
    /\ \A j \in 1..Len(out) : out[j].index = j - 1
    /\ Len(out) >= CeilDiv(total, clip) - 1

(* C10: for all total_duration >= 0 and segment_duration > 0 the kept       *)
(* segments are contiguous, start at 0 and cover [0, total_duration) but    *)
(* for one trailing gap under 30 s; only the final entry is ever dropped.   *)
C10_PlanCoversAlways ==
    plan_by # "none" => PlanCovers(plan_out, plan_total, plan_clip)

(* C10, amended: the same for all total_duration >= 0 and                   *)
(* segment_duration >= 30.                                                  *)
C10_PlanCoversFrom30 ==
    (plan_by # "none" /\ plan_clip >= 30) =>
        PlanCovers(plan_out, plan_total, plan_clip)

\* two segments kept and a trailing remainder dropped
C10_Witness ==
    /\ plan_by = "app"
    /\ plan_clip >= 30
    /\ Len(plan_out) = 2
    /\ plan_out[2].end < plan_total

\* the entry (index, start, end) of plan index k
PlanEntry(k, total, clip) ==
    [index |-> k, start |-> k * clip,
     end |-> IF (k + 1) * clip <= total THEN (k + 1) * clip ELSE total]

\* plan indices 0 .. ceil(total/clip)-1 whose entry lasts at least 30 s
KeptIndices(total, clip) ==
    {k \in 0..(CeilDiv(total, clip) - 1) :
        PlanEntry(k, total, clip).end - PlanEntry(k, total, clip).start >= 30}

(* C11: for integer total_duration >= 0 and segment_duration > 0 the        *)
(* segments encoded are exactly, in increasing i, the pairs                 *)
(* (i*segment_duration, min((i+1)*segment_duration, total_duration)) for    *)
(* i = 0 .. ceil(total/segment)-1 of length at least 30; 0 gives nothing,   *)
(* 65/65 and 70/65 give only (0,65), 100/65 gives (0,65) and (65,100), and  *)
(* an exactly divisible total ends with a full-length segment.              *)
C11_PlanIsExactly ==
    plan_by = "app" =>
        LET kept == KeptIndices(plan_total, plan_clip) IN
        /\ Len(plan_out) = Cardinality(kept)
        /\ \A j \in 1..Len(plan_out) :
              /\ plan_out[j].index \in kept
              /\ plan_out[j] = PlanEntry(plan_out[j].index, plan_total, plan_clip)
        /\ \A j \in 1..(Len(plan_out) - 1) : plan_out[j].index < plan_out[j + 1].index
        /\ plan_total = 0 => plan_out = <<>>
        /\ (plan_total = 65 /\ plan_clip = 65) =>
              plan_out = <<[index |-> 0, start |-> 0, end |-> 65]>>
        /\ (plan_total = 70 /\ plan_clip = 65) =>
              plan_out = <<[index |-> 0, start |-> 0, end |-> 65]>>
        /\ (plan_total = 100 /\ plan_clip = 65) =>
              plan_out = <<[index |-> 0, start |-> 0, end |-> 65],
                           [index |-> 1, start |-> 65, end |-> 100]>>
        /\ (plan_total > 0 /\ plan_total % plan_clip = 0 /\ plan_clip >= 30) =>
              /\ Len(plan_out) * plan_clip = plan_total
              /\ plan_out[Len(plan_out)].start = plan_total - plan_clip
              /\ plan_out[Len(plan_out)].end = plan_total

\* 100 s cut by 65 s: the 35 s remainder is kept
C11_Witness ==
    /\ plan_by = "app"
    /\ plan_total = 100
    /\ plan_clip = 65
    /\ Len(plan_out) = 2
    /\ plan_out[2].end - plan_out[2].start = 35

(* C12: for source (1920,1080) and target (1080,1920) the transform crops   *)
(* vertically only, keeping the full width, with new_height =               *)
(* floor(1920/(1080/1920)) = 1080.                                          *)
C12_LandscapeCropsVertically ==
    (geo_w = 1920 /\ geo_h = 1080) =>
        \A j \in 1..Len(geo_out) :
            /\ geo_out[j].axis = "vertical"
            /\ geo_out[j].crop.width = 1920
            /\ geo_out[j].crop.height = 1080

(* C12, amended: for source (1920,1080) and target (1080,1920) the          *)
(* transform crops horizontally only, keeping the full height 1080, with    *)
(* new_width = floor(1080*(1080/1920)) = 607 and x_offset = 656.            *)
C12_LandscapeCropsHorizontally ==
    (geo_w = 1920 /\ geo_h = 1080) =>
        \A j \in 1..Len(geo_out) :
            /\ geo_out[j].axis = "horizontal"
            /\ geo_out[j].crop = [x |-> 656, y |-> 0, width |-> 607, height |-> 1080]

\* the resize has run on a 1920x1080 clip
C12_Witness ==
    /\ geo_w = 1920
    /\ geo_h = 1080
    /\ Len(geo_out) >= 1

\* the crop and final size the transform is specified to give for (w, h)
ExpectedResize(w, h) ==
    IF 16 * w > 9 * h
    THEN [axis |-> "horizontal",
          crop |-> [x |-> (w - (9 * h) \div 16) \div 2, y |-> 0,
                    width |-> (9 * h) \div 16, height |-> h],
          size |-> <<1080, 1920>>]
    ELSE [axis |-> "vertical",
          crop |-> [x |-> 0, y |-> (h - (16 * w) \div 9) \div 2,
                    width |-> w, height |-> (16 * w) \div 9],
          size |-> <<1080, 1920>>]

(* C13: for positive integer (w, h): if w/h > 1080/1920 the crop is         *)
(* horizontal only, new_width = floor(h*9/16), x_offset =                   *)
(* floor(w/2 - new_width/2), full height; otherwise vertical only,          *)
(* new_height = floor(w*16/9), y_offset = floor(h/2 - new_height/2), full   *)
(* width; the result is scaled to 1080x1920 and every call gives the same.  *)
C13_CropFormulas ==
    \A j \in 1..Len(geo_out) : geo_out[j] = ExpectedResize(geo_w, geo_h)

\* two calls on a wide clip whose width and cropped width differ in parity,
\* and two calls on a tall clip
C13_Witness ==
    /\ Len(geo_out) = 2
    /\ \/ geo_out[2].axis = "horizontal" /\ (geo_w - geo_out[2].crop.width) % 2 = 1
       \/ geo_out[2].axis = "vertical" /\ geo_out[2].crop.height < geo_h

(* C19: for every positive integer source size the crop rectangle is        *)
(* non-empty and inside the source frame: offset >= 0, offset + cropped     *)
(* extent <= source extent, cropped width and height >= 1.                  *)
C19_CropInsideAndNonEmpty ==
    \A j \in 1..Len(geo_out) :
        /\ geo_out[j].crop.x >= 0
        /\ geo_out[j].crop.y >= 0
        /\ geo_out[j].crop.x + geo_out[j].crop.width <= geo_w
        /\ geo_out[j].crop.y + geo_out[j].crop.height <= geo_h
        /\ geo_out[j].crop.width >= 1
        /\ geo_out[j].crop.height >= 1

(* C14: submit creates the registry entry with status starting, progress 0  *)
(* and no artifacts before the worker is started and before the task id is  *)
(* returned: a status call with a returned id never yields NotFound nor     *)
(* anything older than the starting snapshot, and a status call with an id  *)
(* never submitted always yields NotFound.                                  *)
C14_EntryBeforeWorkerAndReturn ==
    /\ pc # "idle" => tasks[task_id] # NotFound
    /\ returned # 0 => returned = task_id /\ tasks[returned] # NotFound
    /\ task_id # 0 =>
          /\ Len(history) >= 1
          /\ history[1].status = "starting"
          /\ history[1].progress = 0
          /\ history[1].clips = <<>>
    /\ observed.known =>
          /\ observed.resp # NotFound
          /\ \E j \in 1..Len(history) : observed.resp = history[j]
    /\ \A id \in TaskIds : id # task_id => tasks[id] = NotFound
    /\ observed.id # task_id => observed.resp = NotFound

\* the caller polled with the id it got back before the worker had run
C14_Witness ==
    /\ pc = "created"
    /\ observed.known
    /\ observed.resp.status = "starting"

(* C15: in a run where retrieval and every encode succeed, the progress     *)
(* values published to the registry never decrease from the starting        *)
(* snapshot (0) to the completed snapshot (100).                            *)
C15_SuccessfulRunProgress ==
    (task_id # 0 /\ failure = "none") =>
        /\ history[1].progress = 0
        /\ \A j \in 1..(Len(history) - 1) :
              history[j].progress <= history[j + 1].progress
        /\ Stopped =>
              /\ history[Len(history)].status = "completed"
              /\ history[Len(history)].progress = 100

\* three clips were encoded without a failure and the task is completed
C15_Witness ==
    /\ Stopped
    /\ failure = "none"
    /\ Len(attempted) = 3
    /\ tasks[task_id].progress = 100

\* file name digits of segment number a: a on three digits, zero-padded
ExpectedName(a) ==
    IF a < 1000 THEN <<a \div 100, (a \div 10) % 10, a % 10>>
    ELSE <<a \div 1000, (a \div 100) % 10, (a \div 10) % 10, a % 10>>

\* 50 + int((k/n) * 45) in double arithmetic: the exact floor, but one less
\* when k/n is 13/45 or 26/45
ExpectedProgress(k, n) ==
    50 + (k * 45) \div n - (IF k * 45 = 13 * n \/ k * 45 = 26 * n THEN 1 ELSE 0)

\* the encode of the last segment of attempted has returned and nothing has
\* been published since
EncodeJustCompleted ==
    /\ pc = "loop"
    /\ pending = <<>>
    /\ failure = "none"
    /\ attempted # <<>>

(* C16: each time a segment's encode completes during processing, the       *)
(* registry update for that segment carries progress                        *)
(* 50 + floor(i/num_segments * 45) for its plan index i and an artifacts    *)
(* list that already includes that segment's artifact id.                   *)
C16_UpdateAtCompletionListsArtifact ==
    EncodeJustCompleted =>
        LET a == attempted[Len(attempted)] IN
        /\ tasks[task_id].progress = 50 + ((a - 1) * 45) \div num_clips
        /\ \E j \in 1..Len(tasks[task_id].clips) :
              tasks[task_id].clips[j] = ExpectedName(a)

(* C16, amended: the registry update for a segment is published just before *)
(* its encode starts, not when it completes; it carries progress            *)
(* 50 + int(i/num_segments * 45) for its 0-based plan index i (the exact    *)
(* floor, but one less when i/num_segments is 13/45 or 26/45, by double     *)
(* rounding) and an artifacts list holding exactly the artifacts of the     *)
(* segments encoded before it, not its own; it is still the registry entry  *)
(* when the encode completes.                                               *)
C16_UpdateBeforeEncodeListsEarlier ==
    /\ (pc = "encode" /\ pending = <<>>) =>
          /\ tasks[task_id].status = "processing"
          /\ tasks[task_id].progress = ExpectedProgress(i, num_clips)
          /\ tasks[task_id].message.a = i + 1
          /\ tasks[task_id].clips =
                [j \in 1..Len(attempted) |-> ExpectedName(attempted[j])]
          /\ \A j \in 1..Len(attempted) : attempted[j] < i + 1
    /\ EncodeJustCompleted =>
          LET a == attempted[Len(attempted)] IN
          /\ tasks[task_id].status = "processing"
          /\ tasks[task_id].progress = ExpectedProgress(a - 1, num_clips)
          /\ tasks[task_id].clips =
                [j \in 1..(Len(attempted) - 1) |-> ExpectedName(attempted[j])]

\* the second clip has just been encoded: the registry lists the first only
C16_Witness ==
    /\ EncodeJustCompleted
    /\ Len(attempted) = 2
    /\ Len(tasks[task_id].clips) = 1
    /\ tasks[task_id].progress > 50

\* segment number read back from the digits of a file name
NameValue(ds) ==
    IF Len(ds) = 3 THEN ds[1] * 100 + ds[2] * 10 + ds[3]
    ELSE ds[1] * 1000 + ds[2] * 100 + ds[3] * 10 + ds[4]

IsPrefix(short, long) ==
    /\ Len(short) <= Len(long)
    /\ \A j \in 1..Len(short) : short[j] = long[j]

(* C17: the artifacts list is append-only and ordered: across successive    *)
(* registry snapshots the earlier list is a prefix of the later one, the    *)
(* names carry strictly increasing 1-based segment numbers zero-padded to   *)
(* 3 digits, without duplicates, and the list is empty in every snapshot    *)
(* with status starting, downloading or downloaded.                         *)
C17_ArtifactsAppendOnly ==
    /\ \A j \in 1..(Len(history) - 1) :
          IsPrefix(history[j].clips, history[j + 1].clips)
    /\ \A j \in 1..Len(history) :
          LET cs == history[j].clips IN
          /\ history[j].status \in {"starting", "downloading", "downloaded"} =>
                cs = <<>>
          /\ Len(cs) <= Len(attempted)
          /\ \A a \in 1..Len(cs) :
                /\ Len(cs[a]) >= 3
                /\ \A d \in 1..Len(cs[a]) : cs[a][d] \in 0..9
                /\ NameValue(cs[a]) >= 1
                /\ NameValue(cs[a]) = attempted[a]
                /\ cs[a] = ExpectedName(attempted[a])
          /\ \A a \in 1..(Len(cs) - 1) : NameValue(cs[a]) < NameValue(cs[a + 1])

\* a completed task whose registry entry lists clips 001, 002 and 003
C17_Witness ==
    /\ Stopped
    /\ tasks[task_id].status = "completed"
    /\ tasks[task_id].clips = << <<0, 0, 1>>, <<0, 0, 2>>, <<0, 0, 3>> >>

\* segment numbers whose encode has returned without raising
EncodedOk ==
    {attempted[j] : j \in 1..Len(attempted)}
        \ (IF failure = "encode" THEN {attempted[Len(attempted)]} ELSE {})

\* every snapshot built or stored so far, and the last one a reader got
AllSnapshots ==
    calls \cup {history[j] : j \in 1..Len(history)}
          \cup {pending[j] : j \in 1..Len(pending)}
          \cup (IF observed.resp = NotFound THEN {} ELSE {observed.resp})

(* C20: an artifact name appears in a registry snapshot only after the      *)
(* encode for that segment has returned successfully: no snapshot lists an  *)
(* artifact whose encode is still running, failed or was never attempted.   *)
C20_OnlyEncodedArtifactsListed ==
    \A snap \in AllSnapshots :
        \A a \in 1..Len(snap.clips) :
            /\ \E n \in EncodedOk : snap.clips[a] = ExpectedName(n)
            /\ pc = "encode" => snap.clips[a] # ExpectedName(i + 1)

\* the second encode failed: the stored snapshots list the first clip only
C20_Witness ==
    /\ Stopped
    /\ failure = "encode"
    /\ Len(attempted) = 2
    /\ tasks[task_id].clips = << <<0, 0, 1>> >>

\* place of a status in starting, downloading, downloaded, processing, completed
Rank(status) ==
    CASE status = "starting" -> 1
      [] status = "downloading" -> 2
      [] status = "downloaded" -> 3
      [] status = "processing" -> 4
      [] status = "completed" -> 5
      [] OTHER -> 0

\* without a failure the statuses stored follow the order of the state
\* machine, and clips are encoded in increasing index while processing
InOrder ==
    /\ (task_id # 0 /\ failure = "none") =>
          /\ history[1].status = "starting"
          /\ \A j \in 1..(Len(history) - 1) :
                \/ Rank(history[j + 1].status) = Rank(history[j].status) + 1
                \/ /\ history[j + 1].status = "processing"
                   /\ history[j].status = "processing"
          /\ Stopped => history[Len(history)].status = "completed"
          /\ (pc \in {"loop", "encode"} /\ pending = <<>>) =>
                history[Len(history)].status = "processing"
          /\ attempted # <<>> => pc \in {"loop", "encode", "cleanup", "done"}
    /\ \A j \in 1..(Len(attempted) - 1) : attempted[j] < attempted[j + 1]

(* C18: if every retrieval and encode call returns, every submitted task    *)
(* eventually reaches status completed or error; and when no call fails     *)
(* the statuses published are, in order, starting, downloading, downloaded, *)
(* processing, completed, with the segments encoded one at a time in        *)
(* increasing index between downloaded and completed.                       *)
C18_TerminatesInOrder ==
    /\ (task_id # 0) ~> (Stopped /\ Terminal(tasks[task_id]))
    /\ []InOrder

\* a run without failure that encoded two clips and reached completed
C18_Witness ==
    /\ Stopped
    /\ failure = "none"
    /\ Len(attempted) = 2
    /\ tasks[task_id].status = "completed"
    /\ Len(history) = 8

====
